---- MODULE Spec2Model ----
(***************************************************************************)
(* Model of the foc.fun documentation site's homepage components:         *)
(*   src/components/HomepageFeatures/index.tsx  (FeatureItem, FeatureList,*)
(*   Feature, HomepageFeatures) and src/pages/index.tsx (HomepageHeader,  *)
(*   Home),                                                                *)
(* and of the TypeScript the site documents in its integration guide:     *)
(*   hooks/useTransactions.ts, components/TransactionButton.tsx and        *)
(*   services/focEvents.ts (FocEventService, useFocEvents),                *)
(* in its paymaster fallback guide (executeTransactionWithFallback), in    *)
(* its security guide (batchSubmit) and in its events guide                *)
(* (ResilientEventSubscriber).                                             *)
(*                                                                         *)
(* JavaScript values and React elements are records:                       *)
(*   [t |-> "undefined"], [t |-> "null"], [t |-> "string", v |-> s],       *)
(*   [t |-> "component", v |-> name], [t |-> "host", v |-> tag],           *)
(*   [t |-> "text", v |-> s] and                                           *)
(*   [type |-> host or component, props |-> record, children |-> seq].     *)
(* A FeatureItem is a record whose optional fields (Svg, ImageSrc) are in  *)
(* its DOMAIN exactly when they are set.  Characters outside ASCII in the  *)
(* source's text are written as U+XXXX.                                    *)
(***************************************************************************)
EXTENDS Naturals, Sequences, FiniteSets

VARIABLES
  featureList,  \* the module-level array FeatureList
  siteConfig,   \* what useDocusaurusContext() returns
  pc,           \* the component the render pass is about to call
  renders,      \* completed render passes of the page
  layout,       \* props Home gave to Layout in this pass
  header,       \* what HomepageHeader returned in this pass
  pending,      \* Feature elements created by HomepageFeatures, not yet rendered
  section,      \* the rendered cards of this pass, each with its key
  prevSection,  \* the rendered cards of the previous pass
  prevHeader,   \* what HomepageHeader returned in the previous pass
  queue,        \* the components of the page still to be rendered in this pass
  trace,        \* the components called in this pass, in call order
  arg,          \* direct calls of Feature: the last props object
  card,         \* direct calls of Feature: the last returned element
  calls,        \* direct calls of Feature: every (props, returned element) so far
  ncalls,       \* direct calls of Feature: how many so far
  txConnected,  \* useTransactions: engine and account are both set
  txPc,         \* useTransactions: where each sendTransaction call stands
  txResult,     \* useTransactions: the hash of each call's current result, 0 if none
  txSubmitted,  \* the hashes of the transactions each call has put on the network
  txPending,    \* useTransactions: the state `pending`
  evAccount,    \* useFocEvents: the account argument
  evEffect,     \* useFocEvents: "idle", "mounted" (effect ran) or "cleaned"
  evSockets,    \* every WebSocket the service constructed: readyState, messages sent
  evWs,         \* FocEventService.ws: index into evSockets, 0 for null
  evTimers,     \* pending setTimeout callbacks of onclose, oldest first
  evEvents,     \* useFocEvents: the state `events`, newest first
  evReceived,   \* messages the service's sockets have received so far
  evDisconnected,  \* disconnect() has been called on the service
  evSocketsAtDisconnect,  \* how many WebSockets existed when it was first called
  fbPc,         \* executeTransactionWithFallback: where each invocation stands
  fbAttempt,    \* its loop variable `attempt`
  fbPaymaster,  \* txData.paymaster of its argument: "default" until it is set
  fbInvokes,    \* its calls of invokeWithPaymaster: paymaster used and outcome
  fbLastError,  \* its variable `lastError`: an error code, "none" while unset
  fbDelay,      \* the delays of the retry timers it has set, in ms
  fbConfirms,   \* how often it has called confirmRegularTransaction
  fbResult,     \* how it ended: what it returned or the error it threw
  bsInput,      \* batchSubmit: accountAddress of each transaction of the argument
  bsPc,         \* batchSubmit: "idle" or "called"
  bsGroups,     \* Object.entries(groupedByAccount): account and its transactions
  bsNonce,      \* per group: the getNonce call, pending, resolved or rejected
  bsSubmitted,  \* the calls of accounts.submitTransaction, in call order
  rePc,         \* ResilientEventSubscriber: "idle", "subscribing", "waiting", "subscribed"
  reRetryDelay, \* its field retryDelay
  reTimers,     \* pending setTimeout callbacks of connect(), with their delay argument
  reDelays,     \* the delay argument of every setTimeout call so far, in call order
  reFailures    \* how many times events.subscribe has rejected

pageVars == <<featureList, siteConfig, pc, renders, layout, header, pending,
              section, prevSection, prevHeader, queue, trace>>
callVars == <<arg, card, calls, ncalls>>
txVars == <<txConnected, txPc, txResult, txSubmitted, txPending>>
evVars == <<evAccount, evEffect, evSockets, evWs, evTimers, evEvents, evReceived,
            evDisconnected, evSocketsAtDisconnect>>
fbVars == <<fbPc, fbAttempt, fbPaymaster, fbInvokes, fbLastError, fbDelay, fbConfirms,
            fbResult>>
bsVars == <<bsInput, bsPc, bsGroups, bsNonce, bsSubmitted>>
reVars == <<rePc, reRetryDelay, reTimers, reDelays, reFailures>>
vars == <<featureList, siteConfig, pc, renders, layout, header, pending,
          section, prevSection, prevHeader, queue, trace, arg, card, calls, ncalls,
          txConnected, txPc, txResult, txSubmitted, txPending,
          evAccount, evEffect, evSockets, evWs, evTimers, evEvents, evReceived,
          evDisconnected, evSocketsAtDisconnect,
          fbPc, fbAttempt, fbPaymaster, fbInvokes, fbLastError, fbDelay, fbConfirms,
          fbResult,
          bsInput, bsPc, bsGroups, bsNonce, bsSubmitted,
          rePc, reRetryDelay, reTimers, reDelays, reFailures>>

\* Bounds of the model.
MaxRenders == 3
MaxCalls == 2
MaxTxCalls == 2
MaxSockets == 3
MaxMessages == 2
MaxFbCalls == 2
MaxBatchTxs == 3
MaxFailures == 7

(***************************************************************************)
(* JavaScript values                                                       *)
(***************************************************************************)
undefined == [t |-> "undefined"]

null == [t |-> "null"]

Str(s) == [t |-> "string", v |-> s]

Comp(name) == [t |-> "component", v |-> name]

Host(tag) == [t |-> "host", v |-> tag]

Text(s) == [t |-> "text", v |-> s]

El(type, props, children) == [type |-> type, props |-> props, children |-> children]

NoProps == [none |-> TRUE]

\* JavaScript truthiness as the conditional operator of Feature applies it.
Truthy(x) ==
  CASE x.t = "undefined" -> FALSE
    [] x.t = "null" -> FALSE
    [] x.t = "string" -> x.v # ""
    [] OTHER -> TRUE

\* Destructuring a props object: a field that is not set reads as undefined.
Get(props, f) == IF f \in DOMAIN props THEN props[f] ELSE undefined

\* import styles from './styles.module.css'
styles == [features |-> "styles.features", featureSvg |-> "styles.featureSvg",
           heroBanner |-> "styles.heroBanner", buttons |-> "styles.buttons"]

\* clsx joins its truthy arguments with one space.
clsx1(a) == a

clsx2(a, b) == IF a = "" THEN b ELSE IF b = "" THEN a ELSE a \o " " \o b

\* JavaScript numbers: the integers the model needs, and NaN.
Num(n) == [t |-> "number", v |-> n]

NaN == [t |-> "NaN"]

\* ToNumber(x) for undefined, numbers and NaN
ToNumber(x) == IF x.t = "number" THEN x ELSE NaN

\* a * b
Times(a, b) ==
  IF ToNumber(a) = NaN \/ ToNumber(b) = NaN THEN NaN ELSE Num(a.v * b.v)

\* Math.min(a, b)
MathMin(a, b) ==
  IF ToNumber(a) = NaN \/ ToNumber(b) = NaN THEN NaN
  ELSE IF a.v < b.v THEN a ELSE b

Heading == Comp("Heading")

Link == Comp("Link")

Layout == Comp("Layout")

Fragment == Comp("Fragment")

(***************************************************************************)
(* src/components/HomepageFeatures/index.tsx                               *)
(***************************************************************************)
Code(s) == El(Host("code"), NoProps, <<Text(s)>>)

DescriptionDeploy ==
  El(Fragment, NoProps,
     <<Text("foc.fun was designed to make Starknet development magical. Deploy your decentralized applications with simple commands and get running quickly.")>>)

DescriptionFocus ==
  El(Fragment, NoProps,
     <<Text("foc.fun handles the infrastructure complexity so you can focus on building amazing user experiences. Use our modular "),
       Code("Registry"), Text(", "), Code("Accounts"), Text(","),
       Code("Paymaster"), Text(", and "), Code("Events"), Text(" modules.")>>)

DescriptionStarknet ==
  El(Fragment, NoProps,
     <<Text("Built specifically for Starknet's Cairo smart contracts and account abstraction. Leverage zero-knowledge proofs, gasless transactions, and next-gen blockchain features.")>>)

\* Variants of the list with one plausible slip each.
\* The first entry still has the site template's vector icon instead of an image.
FeatureListTemplateIcon ==
  << [title |-> "Easy to Deploy",
      Svg |-> Comp("MountainSvg"),
      description |-> DescriptionDeploy],
     [title |-> "Focus on Your App",
      ImageSrc |-> Str("/img/rainbow.png"),
      description |-> DescriptionFocus],
     [title |-> "Powered by Starknet",
      ImageSrc |-> Str("/img/starknet-logo.png"),
      description |-> DescriptionStarknet] >>

\* The first entry got its image while keeping the template's vector icon.
FeatureListBothIcons ==
  << [title |-> "Easy to Deploy",
      Svg |-> Comp("MountainSvg"),
      ImageSrc |-> Str("/img/magician.png"),
      description |-> DescriptionDeploy],
     [title |-> "Focus on Your App",
      ImageSrc |-> Str("/img/rainbow.png"),
      description |-> DescriptionFocus],
     [title |-> "Powered by Starknet",
      ImageSrc |-> Str("/img/starknet-logo.png"),
      description |-> DescriptionStarknet] >>

\* const FeatureList: FeatureItem[]
FeatureList ==
  << [title |-> "Easy to Deploy",
      ImageSrc |-> Str("/img/magician.png"),
      description |-> DescriptionDeploy],
     [title |-> "Focus on Your App",
      ImageSrc |-> Str("/img/rainbow.png"),
      description |-> DescriptionFocus],
     [title |-> "Powered by Starknet",
      ImageSrc |-> Str("/img/starknet-logo.png"),
      description |-> DescriptionStarknet] >>

\* <img src={ImageSrc} alt={title} className={styles.featureSvg} role="img" />
ImgIcon(ImageSrc, title) ==
  El(Host("img"),
     [src |-> ImageSrc, alt |-> title, className |-> styles.featureSvg, role |-> "img"],
     <<>>)

\* <Svg className={styles.featureSvg} role="img" />
SvgIcon(Svg) == El(Svg, [className |-> styles.featureSvg, role |-> "img"], <<>>)

\* Variant of the card: the column class of a two-column row.
CardHalfWidth(icon, title, description) ==
  El(Host("div"), [className |-> clsx1("col col--6")],
     << El(Host("div"), [className |-> "text--center"], <<icon>>),
        El(Host("div"), [className |-> "text--center padding-horiz--md"],
           << El(Heading, [as |-> "h3"], <<Text(title)>>),
              El(Host("p"), NoProps, <<description>>) >>) >>)

\* The card Feature returns around its icon expression: the icon slot, then
\* the heading and the description.
Card(icon, title, description) ==
  El(Host("div"), [className |-> clsx1("col col--4")],
     << El(Host("div"), [className |-> "text--center"], <<icon>>),
        El(Host("div"), [className |-> "text--center padding-horiz--md"],
           << El(Heading, [as |-> "h3"], <<Text(title)>>),
              El(Host("p"), NoProps, <<description>>) >>) >>)

\* Variants of Feature with one plausible slip each.
\* The vector component is tested before the raster path.
FeatureSvgFirst(props) ==
  LET Svg == Get(props, "Svg")
      ImageSrc == Get(props, "ImageSrc")
  IN Card(IF Truthy(Svg)
            THEN SvgIcon(Svg)
            ELSE IF Truthy(ImageSrc) THEN ImgIcon(ImageSrc, props.title) ELSE null,
          props.title, props.description)

\* The two icons are rendered independently of each other; a missing one as null.
FeatureBothIcons(props) ==
  LET Svg == Get(props, "Svg")
      ImageSrc == Get(props, "ImageSrc")
      both == El(Host("div"), [className |-> "text--center"],
                 << IF Truthy(ImageSrc) THEN ImgIcon(ImageSrc, props.title) ELSE null,
                    IF Truthy(Svg) THEN SvgIcon(Svg) ELSE null >>)
  IN [Card(null, props.title, props.description) EXCEPT !.children[1] = both]

\* Only the raster path is rendered; the Svg field is ignored.
FeatureImgOnly(props) ==
  LET ImageSrc == Get(props, "ImageSrc")
  IN Card(IF Truthy(ImageSrc) THEN ImgIcon(ImageSrc, props.title) ELSE null,
          props.title, props.description)

\* An item without an icon renders no card at all.
FeatureNullWithoutIcon(props) ==
  LET Svg == Get(props, "Svg")
      ImageSrc == Get(props, "ImageSrc")
  IN IF Truthy(ImageSrc)
       THEN Card(ImgIcon(ImageSrc, props.title), props.title, props.description)
       ELSE IF Truthy(Svg)
         THEN Card(SvgIcon(Svg), props.title, props.description)
         ELSE null

\* The card carries a number taken from a counter of the calls made so far.
FeatureCounting(props) ==
  LET Svg == Get(props, "Svg")
      ImageSrc == Get(props, "ImageSrc")
      c == Card(IF Truthy(ImageSrc)
                  THEN ImgIcon(ImageSrc, props.title)
                  ELSE IF Truthy(Svg) THEN SvgIcon(Svg) ELSE null,
                props.title, props.description)
  IN [c EXCEPT !.props = [className |-> c.props.className, id |-> ncalls]]

\* The raster path is tested for being set (!== undefined), not for truthiness.
FeatureIfDefined(props) ==
  LET Svg == Get(props, "Svg")
      ImageSrc == Get(props, "ImageSrc")
  IN Card(IF ImageSrc # undefined
            THEN ImgIcon(ImageSrc, props.title)
            ELSE IF Svg # undefined THEN SvgIcon(Svg) ELSE null,
          props.title, props.description)

\* The image's alt text is taken from the path instead of the title.
FeatureAltIsSrc(props) ==
  LET Svg == Get(props, "Svg")
      ImageSrc == Get(props, "ImageSrc")
  IN Card(IF Truthy(ImageSrc)
            THEN ImgIcon(ImageSrc, ImageSrc.v)
            ELSE IF Truthy(Svg) THEN SvgIcon(Svg) ELSE null,
          props.title, props.description)

\* function Feature({title, Svg, ImageSrc, description}: FeatureItem)
Feature(props) ==
  LET title == props.title
      Svg == Get(props, "Svg")
      ImageSrc == Get(props, "ImageSrc")
      description == props.description
  IN Card(IF Truthy(ImageSrc)
            THEN ImgIcon(ImageSrc, title)
            ELSE IF Truthy(Svg) THEN SvgIcon(Svg) ELSE null,
          title, description)

\* Variants of the map with one plausible slip each.
\* The entries are mapped last to first.
FeatureElementsReversed(list) ==
  [i \in 1..Len(list) |-> [key |-> i - 1, props |-> list[Len(list) + 1 - i]]]

\* The key comes from a counter that runs on over the render passes.
FeatureElementsCounterKeys(list) ==
  [i \in 1..Len(list) |-> [key |-> renders * Len(list) + i - 1, props |-> list[i]]]

\* FeatureList.map((props, idx) => <Feature key={idx} {...props} />)
FeatureElements(list) ==
  [i \in 1..Len(list) |-> [key |-> i - 1, props |-> list[i]]]

\* The component React calls after the current one: the next of the queue.
NextPc == IF queue = <<>> THEN "done" ELSE Head(queue)

NextQueue == IF queue = <<>> THEN <<>> ELSE Tail(queue)

\* Variant of HomepageFeatures: the list is put in display order in place
\* (Array.prototype.reverse) before it is mapped.
HomepageFeaturesInPlace ==
  /\ pc = "HomepageFeatures"
  /\ featureList' = [i \in 1..Len(featureList) |-> featureList[Len(featureList) + 1 - i]]
  /\ pending' = [i \in 1..Len(featureList) |-> [key |-> i - 1, props |-> featureList'[i]]]
  /\ section' = <<>>
  /\ trace' = Append(trace, "HomepageFeatures")
  /\ pc' = IF Len(featureList) = 0 THEN NextPc ELSE "Feature"
  /\ queue' = IF Len(featureList) = 0 THEN NextQueue ELSE queue
  /\ UNCHANGED <<siteConfig, renders, layout, header, prevSection, prevHeader>>
  /\ UNCHANGED <<callVars, txVars, evVars, fbVars, bsVars, reVars>>

\* export default function HomepageFeatures(): the section is a fixed frame
\* around the mapped Feature elements, which React renders in order.
HomepageFeatures ==
  /\ pc = "HomepageFeatures"
  /\ pending' = FeatureElements(featureList)
  /\ section' = <<>>
  /\ trace' = Append(trace, "HomepageFeatures")
  /\ pc' = IF Len(featureList) = 0 THEN NextPc ELSE "Feature"
  /\ queue' = IF Len(featureList) = 0 THEN NextQueue ELSE queue
  /\ UNCHANGED <<featureList, siteConfig, renders, layout, header, prevSection, prevHeader>>
  /\ UNCHANGED <<callVars, txVars, evVars, fbVars, bsVars, reVars>>

\* Variant of RenderFeature: the card is built as in the site template, which
\* renders <Svg .../> unconditionally, so an entry without Svg makes React throw.
RenderFeatureSvgRequired ==
  /\ pc = "Feature"
  /\ pending # <<>>
  /\ trace' = Append(trace, "Feature")
  /\ IF "Svg" \in DOMAIN Head(pending).props
       THEN /\ section' = Append(section, [key |-> Head(pending).key,
                                           card |-> Feature(Head(pending).props)])
            /\ pending' = Tail(pending)
            /\ pc' = IF Tail(pending) = <<>> THEN NextPc ELSE "Feature"
            /\ queue' = IF Tail(pending) = <<>> THEN NextQueue ELSE queue
       ELSE /\ pc' = "error"
            /\ UNCHANGED <<section, pending, queue>>
  /\ UNCHANGED <<featureList, siteConfig, renders, layout, header, prevSection, prevHeader>>
  /\ UNCHANGED <<callVars, txVars, evVars, fbVars, bsVars, reVars>>

\* React renders the next Feature element of the row: it calls Feature with the
\* element's props and keeps the returned card under the element's key.
RenderFeature ==
  /\ pc = "Feature"
  /\ pending # <<>>
  /\ section' = Append(section, [key |-> Head(pending).key,
                                 card |-> Feature(Head(pending).props)])
  /\ pending' = Tail(pending)
  /\ trace' = Append(trace, "Feature")
  /\ pc' = IF Tail(pending) = <<>> THEN NextPc ELSE "Feature"
  /\ queue' = IF Tail(pending) = <<>> THEN NextQueue ELSE queue
  /\ UNCHANGED <<featureList, siteConfig, renders, layout, header, prevSection, prevHeader>>
  /\ UNCHANGED <<callVars, txVars, evVars, fbVars, bsVars, reVars>>

\* The frame HomepageFeatures puts around the cards.
SectionElement(cards) ==
  El(Host("section"), [className |-> styles.features],
     << El(Host("div"), [className |-> "container"],
           << El(Host("div"), [className |-> "row"], cards) >>) >>)

(***************************************************************************)
(* src/pages/index.tsx                                                     *)
(***************************************************************************)
HeaderLogo ==
  El(Host("img"),
     [src |-> Str("/img/foc-logo.png"), alt |-> "foc.fun logo",
      className |-> "hero__logo", width |-> "80", height |-> "80"],
     <<>>)

GetStartedLink ==
  El(Link, [className |-> "button button--secondary button--lg",
            to |-> "/docs/getting-started/intro"],
     <<Text("Get Started with foc.fun U+1FA84")>>)

DocumentationLink ==
  El(Link, [className |-> "button button--primary button--lg margin-left--md",
            to |-> "/docs/intro"],
     <<Text("View Documentation U+1F4D6")>>)

\* The header around its title, its subtitle and its buttons.
HeaderFrame(title, subtitle, buttons) ==
  El(Host("header"), [className |-> clsx2("hero hero--primary", styles.heroBanner)],
     << El(Host("div"), [className |-> "container"],
           << El(Host("div"), [className |-> "hero__title-container"],
                 << HeaderLogo,
                    El(Heading, [as |-> "h1", className |-> "hero__title"], title) >>),
              El(Host("p"), [className |-> "hero__subtitle"], subtitle),
              El(Host("div"), [className |-> styles.buttons], buttons) >>) >>)

\* Variant of the header: the two links in the other order.
HomepageHeaderElementDocsFirst(config) ==
  HeaderFrame(<<Text(config.title), Text(" U+2728")>>, <<Text(config.tagline)>>,
              <<DocumentationLink, GetStartedLink>>)

\* function HomepageHeader()
HomepageHeaderElement(config) ==
  HeaderFrame(<<Text(config.title), Text(" U+2728")>>, <<Text(config.tagline)>>,
              <<GetStartedLink, DocumentationLink>>)

HomepageHeader ==
  /\ pc = "HomepageHeader"
  /\ header' = HomepageHeaderElement(siteConfig)
  /\ trace' = Append(trace, "HomepageHeader")
  /\ pc' = NextPc
  /\ queue' = NextQueue
  /\ UNCHANGED <<featureList, siteConfig, renders, layout, pending, section,
                 prevSection, prevHeader>>
  /\ UNCHANGED <<callVars, txVars, evVars, fbVars, bsVars, reVars>>

HomepageHeaderComponent == Comp("HomepageHeader")

HomepageFeaturesComponent == Comp("HomepageFeatures")

LayoutProps(config) ==
  [title |-> "Welcome to " \o config.title,
   description |-> "The Starknet App Engine - Build decentralized applications with ease"]

\* Variant of Home: the features section is placed above the header.
HomeElementFeaturesFirst(config) ==
  El(Layout, LayoutProps(config),
     << El(Host("main"), NoProps, <<El(HomepageFeaturesComponent, NoProps, <<>>)>>),
        El(HomepageHeaderComponent, NoProps, <<>>) >>)

\* What Home returns: Layout with the header and, in main, the features section.
HomeElement(config) ==
  El(Layout, LayoutProps(config),
     << El(HomepageHeaderComponent, NoProps, <<>>),
        El(Host("main"), NoProps, <<El(HomepageFeaturesComponent, NoProps, <<>>)>>) >>)

\* The components of this site in an element tree, in document order: the
\* order in which React calls them.
RECURSIVE ComponentsOf(_)
ComponentsOf(els) ==
  IF els = <<>>
    THEN <<>>
    ELSE LET e == Head(els)
         IN (IF "type" \notin DOMAIN e
               THEN <<>>
               ELSE IF e.type \in {HomepageHeaderComponent, HomepageFeaturesComponent}
                 THEN <<e.type.v>>
                 ELSE ComponentsOf(e.children))
            \o ComponentsOf(Tail(els))

\* export default function Home(): a render pass of the page starts here.
Home ==
  /\ pc = "Home"
  /\ layout' = HomeElement(siteConfig)
  /\ header' = null
  /\ pending' = <<>>
  /\ section' = <<>>
  /\ prevSection' = section
  /\ prevHeader' = header
  /\ trace' = <<"Home">>
  /\ LET order == ComponentsOf(layout'.children)
     IN /\ pc' = IF order = <<>> THEN "done" ELSE Head(order)
        /\ queue' = IF order = <<>> THEN <<>> ELSE Tail(order)
  /\ UNCHANGED <<featureList, siteConfig, renders>>
  /\ UNCHANGED <<callVars, txVars, evVars, fbVars, bsVars, reVars>>

\* The page is rendered again (static build, then hydration and later visits).
Rerender ==
  /\ pc = "done"
  /\ renders < MaxRenders
  /\ renders' = renders + 1
  /\ pc' = "Home"
  /\ UNCHANGED <<featureList, siteConfig, layout, header, pending, section,
                 prevSection, prevHeader, queue, trace>>
  /\ UNCHANGED <<callVars, txVars, evVars, fbVars, bsVars, reVars>>

\* Site configurations the external docusaurus.config.ts may supply.
SiteConfigs == [title : {"foc.fun", ""}, tagline : {"The Starknet App Engine", "docs"}]

PageInit ==
  /\ featureList = FeatureList
  /\ siteConfig \in SiteConfigs
  /\ pc = "Home"
  /\ renders = 0
  /\ layout = null
  /\ header = null
  /\ pending = <<>>
  /\ section = <<>>
  /\ prevSection = <<>>
  /\ prevHeader = null
  /\ queue = <<>>
  /\ trace = <<>>

\* The page when it is not the subject: one configuration, nothing rendered.
PageIdle == PageInit /\ siteConfig = [title |-> "foc.fun", tagline |-> "The Starknet App Engine"]

CallInit ==
  /\ arg = null
  /\ card = null
  /\ calls = {}
  /\ ncalls = 0

(***************************************************************************)
(* hooks/useTransactions.ts and components/TransactionButton.tsx           *)
(* Every awaited call of the engine settles either way.  A call of         *)
(* sendTransaction runs from one await to the next in one step.            *)
(***************************************************************************)
TxCalls == 1..MaxTxCalls

RECURSIVE TxCount(_, _)
TxCount(submitted, n) ==
  IF n = 0 THEN 0 ELSE Len(submitted[n]) + TxCount(submitted, n - 1)

\* The hash of the next transaction the network accepts: hashes are unique.
FreshHash == TxCount(txSubmitted, MaxTxCalls) + 1

\* setPending(prev => [...prev, result.hash])
AddPending(prev, hash) == Append(prev, hash)

\* setPending(prev => prev.filter(hash => hash !== result.hash))
RemovePending(prev, hash) == SelectSeq(prev, LAMBDA h : h # hash)

TxInit ==
  /\ txConnected \in BOOLEAN
  /\ txPc = [c \in TxCalls |-> "idle"]
  /\ txResult = [c \in TxCalls |-> 0]
  /\ txSubmitted = [c \in TxCalls |-> <<>>]
  /\ txPending = <<>>

TxIdle == TxInit /\ txConnected = TRUE

\* sendTransaction(txData) is called: `if (!engine || !account) throw`, else
\* it awaits engine.accounts.invokeWithPaymaster.
SendTransaction(c) ==
  /\ txPc[c] = "idle"
  /\ txPc' = [txPc EXCEPT ![c] = IF txConnected THEN "invokeWithPaymaster" ELSE "rejected"]
  /\ UNCHANGED <<txConnected, txResult, txSubmitted, txPending>>
  /\ UNCHANGED <<pageVars, callVars, evVars, fbVars, bsVars, reVars>>

\* invokeWithPaymaster resolves with the submitted transaction: its hash joins
\* pending and the call awaits result.wait().
InvokeWithPaymasterResolves(c) ==
  /\ txPc[c] = "invokeWithPaymaster"
  /\ txSubmitted' = [txSubmitted EXCEPT ![c] = Append(@, FreshHash)]
  /\ txResult' = [txResult EXCEPT ![c] = FreshHash]
  /\ txPending' = AddPending(txPending, FreshHash)
  /\ txPc' = [txPc EXCEPT ![c] = "wait"]
  /\ UNCHANGED txConnected
  /\ UNCHANGED <<pageVars, callVars, evVars, fbVars, bsVars, reVars>>

\* invokeWithPaymaster rejects: the catch block awaits buildTransaction.
InvokeWithPaymasterRejects(c) ==
  /\ txPc[c] = "invokeWithPaymaster"
  /\ txPc' = [txPc EXCEPT ![c] = "buildTransaction"]
  /\ UNCHANGED <<txConnected, txResult, txSubmitted, txPending>>
  /\ UNCHANGED <<pageVars, callVars, evVars, fbVars, bsVars, reVars>>

\* result.wait() of the paymaster transaction resolves: the hash leaves pending
\* and the call returns result.
WaitResolves(c) ==
  /\ txPc[c] = "wait"
  /\ txPending' = RemovePending(txPending, txResult[c])
  /\ txPc' = [txPc EXCEPT ![c] = "resolved"]
  /\ UNCHANGED <<txConnected, txResult, txSubmitted>>
  /\ UNCHANGED <<pageVars, callVars, evVars, fbVars, bsVars, reVars>>

\* result.wait() of the paymaster transaction rejects inside the try block:
\* the same catch block runs and awaits buildTransaction.
WaitRejects(c) ==
  /\ txPc[c] = "wait"
  /\ txPc' = [txPc EXCEPT ![c] = "buildTransaction"]
  /\ UNCHANGED <<txConnected, txResult, txSubmitted, txPending>>
  /\ UNCHANGED <<pageVars, callVars, evVars, fbVars, bsVars, reVars>>

BuildTransactionResolves(c) ==
  /\ txPc[c] = "buildTransaction"
  /\ txPc' = [txPc EXCEPT ![c] = "signTransaction"]
  /\ UNCHANGED <<txConnected, txResult, txSubmitted, txPending>>
  /\ UNCHANGED <<pageVars, callVars, evVars, fbVars, bsVars, reVars>>

SignTransactionResolves(c) ==
  /\ txPc[c] = "signTransaction"
  /\ txPc' = [txPc EXCEPT ![c] = "submitTransaction"]
  /\ UNCHANGED <<txConnected, txResult, txSubmitted, txPending>>
  /\ UNCHANGED <<pageVars, callVars, evVars, fbVars, bsVars, reVars>>

\* submitTransaction resolves with the submitted transaction: its hash joins
\* pending and the call awaits result.wait().
SubmitTransactionResolves(c) ==
  /\ txPc[c] = "submitTransaction"
  /\ txSubmitted' = [txSubmitted EXCEPT ![c] = Append(@, FreshHash)]
  /\ txResult' = [txResult EXCEPT ![c] = FreshHash]
  /\ txPending' = AddPending(txPending, FreshHash)
  /\ txPc' = [txPc EXCEPT ![c] = "waitFallback"]
  /\ UNCHANGED txConnected
  /\ UNCHANGED <<pageVars, callVars, evVars, fbVars, bsVars, reVars>>

\* result.wait() of the regular transaction resolves.
WaitFallbackResolves(c) ==
  /\ txPc[c] = "waitFallback"
  /\ txPending' = RemovePending(txPending, txResult[c])
  /\ txPc' = [txPc EXCEPT ![c] = "resolved"]
  /\ UNCHANGED <<txConnected, txResult, txSubmitted>>
  /\ UNCHANGED <<pageVars, callVars, evVars, fbVars, bsVars, reVars>>

\* An await of the catch block rejects: nothing catches it, the call rejects.
FallbackRejects(c) ==
  /\ txPc[c] \in {"buildTransaction", "signTransaction", "submitTransaction", "waitFallback"}
  /\ txPc' = [txPc EXCEPT ![c] = "rejected"]
  /\ UNCHANGED <<txConnected, txResult, txSubmitted, txPending>>
  /\ UNCHANGED <<pageVars, callVars, evVars, fbVars, bsVars, reVars>>

\* TransactionButton: loading is true from the click until sendTransaction
\* settles; disabled={loading || pendingTransactions.length > 0}
TxSettled(c) == txPc[c] \in {"idle", "resolved", "rejected"}

TransactionButtonDisabled ==
  (\E c \in TxCalls : ~TxSettled(c)) \/ Len(txPending) > 0

NextTx ==
  \E c \in TxCalls :
    \/ SendTransaction(c)
    \/ InvokeWithPaymasterResolves(c)
    \/ InvokeWithPaymasterRejects(c)
    \/ WaitResolves(c)
    \/ WaitRejects(c)
    \/ BuildTransactionResolves(c)
    \/ SignTransactionResolves(c)
    \/ SubmitTransactionResolves(c)
    \/ WaitFallbackResolves(c)
    \/ FallbackRejects(c)

(***************************************************************************)
(* services/focEvents.ts: FocEventService and useFocEvents                 *)
(* One service, as one run of the hook's effect creates it.  A WebSocket   *)
(* is CONNECTING when constructed; it opens and closes in later tasks.     *)
(***************************************************************************)
ReconnectDelay == 5000

EventsAccount == [address |-> "0xacc0"]

\* connect(): this.ws = new WebSocket(wsUrl)
Connect(sockets) == Append(sockets, [readyState |-> "CONNECTING", sent |-> <<>>])

\* subscribeToAccount(address): sends only if this.ws is OPEN
SubscribeToAccount(sockets, ws, address) ==
  IF ws # 0 /\ sockets[ws].readyState = "OPEN"
    THEN [sockets EXCEPT ![ws].sent = Append(@, [type |-> "subscribe", address |-> address])]
    ELSE sockets

\* disconnect(): this.ws?.close(); close() starts the closing handshake of a
\* socket that is connecting or open and does nothing otherwise.
Disconnect(sockets, ws) ==
  IF ws # 0 /\ sockets[ws].readyState \in {"CONNECTING", "OPEN"}
    THEN [sockets EXCEPT ![ws].readyState = "CLOSING"]
    ELSE sockets

EvInit ==
  /\ evAccount \in {undefined, EventsAccount}
  /\ evEffect = "idle"
  /\ evSockets = <<>>
  /\ evWs = 0
  /\ evTimers = <<>>
  /\ evEvents = <<>>
  /\ evReceived = 0
  /\ evDisconnected = FALSE
  /\ evSocketsAtDisconnect = 0

EvIdle == EvInit /\ evAccount = undefined

\* The effect of useFocEvents runs: without an account it returns at once,
\* else it constructs the service, connects and subscribes in one task.
RunEffect ==
  /\ evEffect = "idle"
  /\ evEffect' = "mounted"
  /\ IF evAccount = undefined
       THEN UNCHANGED <<evSockets, evWs>>
       ELSE /\ evWs' = Len(Connect(evSockets))
            /\ evSockets' = SubscribeToAccount(Connect(evSockets), evWs', evAccount.address)
  /\ UNCHANGED <<evAccount, evEvents, evReceived, evTimers, evDisconnected, evSocketsAtDisconnect>>
  /\ UNCHANGED <<pageVars, callVars, txVars, fbVars, bsVars, reVars>>

\* ws.onopen: the connection is established; the handler logs.
SocketOpens(i) ==
  /\ evSockets[i].readyState = "CONNECTING"
  /\ evSockets' = [evSockets EXCEPT ![i].readyState = "OPEN"]
  /\ UNCHANGED <<evAccount, evEvents, evReceived, evEffect, evWs, evTimers, evDisconnected, evSocketsAtDisconnect>>
  /\ UNCHANGED <<pageVars, callVars, txVars, fbVars, bsVars, reVars>>

\* Variant of onclose: the reconnect is scheduled only while disconnect() has
\* not been called.
SocketClosesUnlessDisconnected(i) ==
  /\ evSockets[i].readyState \in {"CONNECTING", "OPEN", "CLOSING"}
  /\ evSockets' = [evSockets EXCEPT ![i].readyState = "CLOSED"]
  /\ evTimers' = IF evDisconnected
                   THEN evTimers
                   ELSE Append(evTimers, [delay |-> ReconnectDelay, socket |-> i])
  /\ UNCHANGED <<evAccount, evEvents, evReceived, evEffect, evWs, evDisconnected, evSocketsAtDisconnect>>
  /\ UNCHANGED <<pageVars, callVars, txVars, fbVars, bsVars, reVars>>

\* ws.onclose: the connection failed, was closed by the server, or its close()
\* completed; the handler schedules connect() after ReconnectDelay.
SocketCloses(i) ==
  /\ evSockets[i].readyState \in {"CONNECTING", "OPEN", "CLOSING"}
  /\ evSockets' = [evSockets EXCEPT ![i].readyState = "CLOSED"]
  /\ evTimers' = Append(evTimers, [delay |-> ReconnectDelay, socket |-> i])
  /\ UNCHANGED <<evAccount, evEvents, evReceived, evEffect, evWs, evDisconnected, evSocketsAtDisconnect>>
  /\ UNCHANGED <<pageVars, callVars, txVars, fbVars, bsVars, reVars>>

\* The oldest timer fires: () => this.connect()
ReconnectTimerFires ==
  /\ evTimers # <<>>
  /\ Len(evSockets) < MaxSockets
  /\ evTimers' = Tail(evTimers)
  /\ evSockets' = Connect(evSockets)
  /\ evWs' = Len(evSockets')
  /\ UNCHANGED <<evAccount, evEvents, evReceived, evEffect, evDisconnected, evSocketsAtDisconnect>>
  /\ UNCHANGED <<pageVars, callVars, txVars, fbVars, bsVars, reVars>>

\* The cleanup of the effect runs: eventService.disconnect()
Cleanup ==
  /\ evEffect = "mounted"
  /\ evAccount # undefined
  /\ evEffect' = "cleaned"
  /\ evSockets' = Disconnect(evSockets, evWs)
  /\ evDisconnected' = TRUE
  /\ evSocketsAtDisconnect' = IF evDisconnected THEN evSocketsAtDisconnect ELSE Len(evSockets)
  /\ UNCHANGED <<evAccount, evEvents, evReceived, evWs, evTimers>>
  /\ UNCHANGED <<pageVars, callVars, txVars, fbVars, bsVars, reVars>>

\* ws.onmessage on an open socket: the parsed message is emitted under its
\* type; the hook's 'transaction' listener prepends it to events, its
\* 'usernameChanged' listener does nothing.
EventTypes == {"transaction", "usernameChanged"}

SocketMessage(i, type) ==
  /\ evEffect # "idle"
  /\ evSockets[i].readyState = "OPEN"
  /\ evReceived < MaxMessages
  /\ evReceived' = evReceived + 1
  /\ evEvents' = IF type = "transaction"
                   THEN <<[type |-> type, seq |-> evReceived + 1]>> \o evEvents
                   ELSE evEvents
  /\ UNCHANGED <<evAccount, evEffect, evSockets, evWs, evTimers, evDisconnected,
                 evSocketsAtDisconnect>>
  /\ UNCHANGED <<pageVars, callVars, txVars, fbVars, bsVars, reVars>>

NextEvents ==
  \/ RunEffect
  \/ \E i \in 1..Len(evSockets) : SocketOpens(i)
  \/ \E i \in 1..Len(evSockets) : SocketCloses(i)
  \/ \E i \in 1..Len(evSockets), type \in EventTypes : SocketMessage(i, type)
  \/ ReconnectTimerFires
  \/ Cleanup

(***************************************************************************)
(* Paymaster fallback guide: executeTransactionWithFallback                *)
(* Every awaited call settles either way; an invocation runs from one      *)
(* await to the next in one step.  Each invocation has its own txData.     *)
(***************************************************************************)
FbCalls == 1..MaxFbCalls

\* Variant: one attempt more.
maxAttemptsFour == 3 + 1

\* const maxAttempts = 3
maxAttempts == 3

\* The codes an error of invokeWithPaymaster carries.
ErrorCodes == {"PAYMASTER_UNAVAILABLE", "PAYMASTER_TIMEOUT"}

\* error.code === 'PAYMASTER_UNAVAILABLE' && attempt < maxAttempts
ShouldRetry(code, attempt) == code = "PAYMASTER_UNAVAILABLE" /\ attempt < maxAttempts

\* setTimeout(resolve, 1000 * attempt)
RetryDelay(attempt) == 1000 * attempt

\* engine.accounts.invokeWithPaymaster(txData) is called.
InvokeWithPaymaster(invokes, paymaster) ==
  Append(invokes, [paymaster |-> paymaster, outcome |-> "pending"])

\* The last call of invokeWithPaymaster settles.
SettleInvoke(invokes, outcome) == [invokes EXCEPT ![Len(invokes)].outcome = outcome]

FbInit ==
  /\ fbPc = [c \in FbCalls |-> "idle"]
  /\ fbAttempt = [c \in FbCalls |-> 0]
  /\ fbPaymaster = [c \in FbCalls |-> "default"]
  /\ fbInvokes = [c \in FbCalls |-> <<>>]
  /\ fbLastError = [c \in FbCalls |-> "none"]
  /\ fbDelay = [c \in FbCalls |-> <<>>]
  /\ fbConfirms = [c \in FbCalls |-> 0]
  /\ fbResult = [c \in FbCalls |-> [t |-> "none"]]

\* executeTransactionWithFallback(txData) is called: attempt = 1 passes the
\* loop condition and invokeWithPaymaster is awaited.
ExecuteTransactionWithFallback(c) ==
  /\ fbPc[c] = "idle"
  /\ fbAttempt' = [fbAttempt EXCEPT ![c] = 1]
  /\ IF 1 <= maxAttempts
       THEN /\ fbInvokes' = [fbInvokes EXCEPT ![c] = InvokeWithPaymaster(@, fbPaymaster[c])]
            /\ fbPc' = [fbPc EXCEPT ![c] = "invokeWithPaymaster"]
            /\ UNCHANGED fbResult
       ELSE /\ fbPc' = [fbPc EXCEPT ![c] = "thrown"]
            /\ fbResult' = [fbResult EXCEPT ![c] = [t |-> "error", v |-> fbLastError[c]]]
            /\ UNCHANGED fbInvokes
  /\ UNCHANGED <<fbPaymaster, fbLastError, fbDelay, fbConfirms>>
  /\ UNCHANGED <<pageVars, callVars, txVars, evVars, bsVars, reVars>>

\* invokeWithPaymaster resolves: return result
FallbackInvokeResolves(c) ==
  /\ fbPc[c] = "invokeWithPaymaster"
  /\ fbInvokes' = [fbInvokes EXCEPT ![c] = SettleInvoke(@, "resolved")]
  /\ fbResult' = [fbResult EXCEPT ![c] = [t |-> "invokeWithPaymaster", v |-> Len(fbInvokes[c])]]
  /\ fbPc' = [fbPc EXCEPT ![c] = "returned"]
  /\ UNCHANGED <<fbAttempt, fbPaymaster, fbLastError, fbDelay, fbConfirms>>
  /\ UNCHANGED <<pageVars, callVars, txVars, evVars, bsVars, reVars>>

\* invokeWithPaymaster rejects with an error of this code: the catch block
\* either sets the fallback paymaster and waits before the next attempt, or,
\* on the last attempt, awaits confirmRegularTransaction, or rethrows.
FallbackInvokeRejects(c, code) ==
  /\ fbPc[c] = "invokeWithPaymaster"
  /\ fbInvokes' = [fbInvokes EXCEPT ![c] = SettleInvoke(@, code)]
  /\ fbLastError' = [fbLastError EXCEPT ![c] = code]
  /\ IF ShouldRetry(code, fbAttempt[c])
       THEN /\ fbPaymaster' = [fbPaymaster EXCEPT ![c] = "avnu"]
            /\ fbDelay' = [fbDelay EXCEPT ![c] = Append(@, RetryDelay(fbAttempt[c]))]
            /\ fbPc' = [fbPc EXCEPT ![c] = "retryWait"]
            /\ UNCHANGED <<fbConfirms, fbResult>>
       ELSE IF fbAttempt[c] = maxAttempts
         THEN /\ fbConfirms' = [fbConfirms EXCEPT ![c] = @ + 1]
              /\ fbPc' = [fbPc EXCEPT ![c] = "confirmRegularTransaction"]
              /\ UNCHANGED <<fbPaymaster, fbDelay, fbResult>>
         ELSE /\ fbPc' = [fbPc EXCEPT ![c] = "thrown"]
              /\ fbResult' = [fbResult EXCEPT ![c] = [t |-> "error", v |-> code]]
              /\ UNCHANGED <<fbPaymaster, fbDelay, fbConfirms>>
  /\ UNCHANGED fbAttempt
  /\ UNCHANGED <<pageVars, callVars, txVars, evVars, bsVars, reVars>>

\* The retry timer fires: continue; attempt++ and, the loop condition
\* holding, invokeWithPaymaster is awaited again.
RetryTimerFires(c) ==
  /\ fbPc[c] = "retryWait"
  /\ fbAttempt' = [fbAttempt EXCEPT ![c] = @ + 1]
  /\ IF fbAttempt[c] + 1 <= maxAttempts
       THEN /\ fbInvokes' = [fbInvokes EXCEPT ![c] = InvokeWithPaymaster(@, fbPaymaster[c])]
            /\ fbPc' = [fbPc EXCEPT ![c] = "invokeWithPaymaster"]
            /\ UNCHANGED fbResult
       ELSE /\ fbPc' = [fbPc EXCEPT ![c] = "thrown"]
            /\ fbResult' = [fbResult EXCEPT ![c] = [t |-> "error", v |-> fbLastError[c]]]
            /\ UNCHANGED fbInvokes
  /\ UNCHANGED <<fbPaymaster, fbLastError, fbDelay, fbConfirms>>
  /\ UNCHANGED <<pageVars, callVars, txVars, evVars, bsVars, reVars>>

\* confirmRegularTransaction resolves: if the user confirms,
\* executeRegularTransaction is awaited, else the error is rethrown.
ConfirmRegularTransactionResolves(c, userConfirms) ==
  /\ fbPc[c] = "confirmRegularTransaction"
  /\ IF userConfirms
       THEN /\ fbPc' = [fbPc EXCEPT ![c] = "executeRegularTransaction"]
            /\ UNCHANGED fbResult
       ELSE /\ fbPc' = [fbPc EXCEPT ![c] = "thrown"]
            /\ fbResult' = [fbResult EXCEPT ![c] = [t |-> "error", v |-> fbLastError[c]]]
  /\ UNCHANGED <<fbAttempt, fbPaymaster, fbInvokes, fbLastError, fbDelay, fbConfirms>>
  /\ UNCHANGED <<pageVars, callVars, txVars, evVars, bsVars, reVars>>

\* executeRegularTransaction resolves: return its result
ExecuteRegularTransactionResolves(c) ==
  /\ fbPc[c] = "executeRegularTransaction"
  /\ fbPc' = [fbPc EXCEPT ![c] = "returned"]
  /\ fbResult' = [fbResult EXCEPT ![c] = [t |-> "executeRegularTransaction", v |-> 0]]
  /\ UNCHANGED <<fbAttempt, fbPaymaster, fbInvokes, fbLastError, fbDelay, fbConfirms>>
  /\ UNCHANGED <<pageVars, callVars, txVars, evVars, bsVars, reVars>>

\* An await of the catch block rejects: nothing catches it, the invocation
\* throws that error.
RegularTransactionRejects(c) ==
  /\ fbPc[c] \in {"confirmRegularTransaction", "executeRegularTransaction"}
  /\ fbPc' = [fbPc EXCEPT ![c] = "thrown"]
  /\ fbResult' = [fbResult EXCEPT ![c] = [t |-> "error", v |-> fbPc[c]]]
  /\ UNCHANGED <<fbAttempt, fbPaymaster, fbInvokes, fbLastError, fbDelay, fbConfirms>>
  /\ UNCHANGED <<pageVars, callVars, txVars, evVars, bsVars, reVars>>

\* What the invocation is waiting for settles.
FallbackSettles(c) ==
  \/ FallbackInvokeResolves(c)
  \/ \E code \in ErrorCodes : FallbackInvokeRejects(c, code)
  \/ RetryTimerFires(c)
  \/ \E userConfirms \in BOOLEAN : ConfirmRegularTransactionResolves(c, userConfirms)
  \/ ExecuteRegularTransactionResolves(c)
  \/ RegularTransactionRejects(c)

NextFallback ==
  \E c \in FbCalls :
    \/ ExecuteTransactionWithFallback(c)
    \/ FallbackInvokeResolves(c)
    \/ \E code \in ErrorCodes : FallbackInvokeRejects(c, code)
    \/ RetryTimerFires(c)
    \/ \E userConfirms \in BOOLEAN : ConfirmRegularTransactionResolves(c, userConfirms)
    \/ ExecuteRegularTransactionResolves(c)
    \/ RegularTransactionRejects(c)

(***************************************************************************)
(* Security guide, Transaction Batching: batchSubmit                       *)
(* A transaction is named by its position in the argument.  An async       *)
(* callback runs synchronously up to its first await, so the callbacks of  *)
(* one map() call run one after the other, each up to its await.           *)
(***************************************************************************)
BatchAccounts == {"0xa11ce", "0xb0b"}

\* The values accounts.getNonce resolves with.
Nonces == {0, 7}

\* The position of account among the groups, 0 if it has none.
RECURSIVE GroupIndex(_, _)
GroupIndex(groups, account) ==
  IF groups = <<>> THEN 0
  ELSE IF groups[Len(groups)].account = account THEN Len(groups)
  ELSE GroupIndex(SubSeq(groups, 1, Len(groups) - 1), account)

\* transactions.reduce((groups, tx) => { ...; groups[account].push(tx) }, {})
\* over the first n transactions, as Object.entries lists it: string keys in
\* insertion order.
RECURSIVE GroupByAccount(_, _)
GroupByAccount(transactions, n) ==
  IF n = 0 THEN <<>>
  ELSE LET groups == GroupByAccount(transactions, n - 1)
           account == transactions[n]
           g == GroupIndex(groups, account)
       IN IF g = 0
            THEN Append(groups, [account |-> account, txs |-> <<n>>])
            ELSE [groups EXCEPT ![g].txs = Append(@, n)]

\* Variant: every transaction of the group takes the nonce as it was read.
TxsWithNonceShared(account, txs, nonce) ==
  [k \in 1..Len(txs) |->
     [tx |-> txs[k], accountAddress |-> account, nonce |-> nonce, state |-> "pending"]]

\* txs.map(async (tx) => { const txWithNonce = { ...tx, nonce: nonce++ };
\*   return await accounts.submitTransaction(txWithNonce) })
TxsWithNonce(account, txs, nonce) ==
  [k \in 1..Len(txs) |->
     [tx |-> txs[k], accountAddress |-> account, nonce |-> nonce + (k - 1), state |-> "pending"]]

BsInit ==
  /\ bsInput \in UNION {[1..n -> BatchAccounts] : n \in 0..MaxBatchTxs}
  /\ bsPc = "idle"
  /\ bsGroups = <<>>
  /\ bsNonce = <<>>
  /\ bsSubmitted = <<>>

BsIdle == BsInit /\ bsInput = <<>>

\* batchSubmit(transactions) is called: the transactions are grouped and the
\* callback of every group runs up to `await accounts.getNonce(account)`.
BatchSubmit ==
  /\ bsPc = "idle"
  /\ bsPc' = "called"
  /\ bsGroups' = GroupByAccount(bsInput, Len(bsInput))
  /\ bsNonce' = [g \in 1..Len(bsGroups') |-> [t |-> "pending"]]
  /\ UNCHANGED <<bsInput, bsSubmitted>>
  /\ UNCHANGED <<pageVars, callVars, txVars, evVars, fbVars, reVars>>

\* getNonce of a group resolves: the callbacks of txs.map run one after the
\* other, each calling submitTransaction with the next nonce.
GetNonceResolves(g, n) ==
  /\ bsPc = "called"
  /\ bsNonce[g].t = "pending"
  /\ bsNonce' = [bsNonce EXCEPT ![g] = [t |-> "resolved", v |-> n]]
  /\ bsSubmitted' = bsSubmitted \o TxsWithNonce(bsGroups[g].account, bsGroups[g].txs, n)
  /\ UNCHANGED <<bsInput, bsPc, bsGroups>>
  /\ UNCHANGED <<pageVars, callVars, txVars, evVars, fbVars, reVars>>

\* getNonce of a group rejects: the group's callback rejects; its
\* transactions are not submitted.
GetNonceRejects(g) ==
  /\ bsPc = "called"
  /\ bsNonce[g].t = "pending"
  /\ bsNonce' = [bsNonce EXCEPT ![g] = [t |-> "rejected"]]
  /\ UNCHANGED <<bsInput, bsPc, bsGroups, bsSubmitted>>
  /\ UNCHANGED <<pageVars, callVars, txVars, evVars, fbVars, reVars>>

\* A call of accounts.submitTransaction resolves, in any order.
BatchSubmitTransactionResolves(k) ==
  /\ bsSubmitted[k].state = "pending"
  /\ bsSubmitted' = [bsSubmitted EXCEPT ![k].state = "resolved"]
  /\ UNCHANGED <<bsInput, bsPc, bsGroups, bsNonce>>
  /\ UNCHANGED <<pageVars, callVars, txVars, evVars, fbVars, reVars>>

\* A call of accounts.submitTransaction rejects.
BatchSubmitTransactionRejects(k) ==
  /\ bsSubmitted[k].state = "pending"
  /\ bsSubmitted' = [bsSubmitted EXCEPT ![k].state = "rejected"]
  /\ UNCHANGED <<bsInput, bsPc, bsGroups, bsNonce>>
  /\ UNCHANGED <<pageVars, callVars, txVars, evVars, fbVars, reVars>>

\* return await Promise.all(promises): rejected once any awaited call has
\* rejected, resolved once all have resolved.
BatchOutcome ==
  IF bsPc = "idle" THEN "idle"
  ELSE IF \/ \E g \in 1..Len(bsNonce) : bsNonce[g].t = "rejected"
          \/ \E k \in 1..Len(bsSubmitted) : bsSubmitted[k].state = "rejected"
    THEN "rejected"
  ELSE IF /\ \A g \in 1..Len(bsNonce) : bsNonce[g].t = "resolved"
          /\ \A k \in 1..Len(bsSubmitted) : bsSubmitted[k].state = "resolved"
    THEN "resolved"
  ELSE "pending"

NextBatch ==
  \/ BatchSubmit
  \/ \E g \in 1..Len(bsNonce), n \in Nonces : GetNonceResolves(g, n)
  \/ \E g \in 1..Len(bsNonce) : GetNonceRejects(g)
  \/ \E k \in 1..Len(bsSubmitted) : BatchSubmitTransactionResolves(k)
  \/ \E k \in 1..Len(bsSubmitted) : BatchSubmitTransactionRejects(k)

(***************************************************************************)
(* Events guide, Error Recovery: ResilientEventSubscriber                  *)
(* The class sets neither options nor retryDelay: retryDelay is undefined  *)
(* unless the code using the class has assigned it.                        *)
(***************************************************************************)
\* The values of retryDelay when connect() is first called.
InitialRetryDelays == {undefined, Num(1000), Num(30000), Num(60000), Num(100000)}

\* Variant: the doubling without the cap.
NextRetryDelayUncapped(retryDelay) == Times(retryDelay, Num(2))

\* Math.min(this.retryDelay * 2, 60000)
NextRetryDelay(retryDelay) == MathMin(Times(retryDelay, Num(2)), Num(60000))

ReInit ==
  /\ rePc = "idle"
  /\ reRetryDelay \in InitialRetryDelays
  /\ reTimers = <<>>
  /\ reDelays = <<>>
  /\ reFailures = 0

ReIdle == ReInit /\ reRetryDelay = undefined

\* connect() is called on the subscriber: it awaits events.subscribe.
ResilientConnect ==
  /\ rePc = "idle"
  /\ rePc' = "subscribing"
  /\ UNCHANGED <<reRetryDelay, reTimers, reDelays, reFailures>>
  /\ UNCHANGED <<pageVars, callVars, txVars, evVars, fbVars, bsVars>>

\* events.subscribe resolves: this.subscription is set.
SubscribeResolves ==
  /\ rePc = "subscribing"
  /\ rePc' = "subscribed"
  /\ UNCHANGED <<reRetryDelay, reTimers, reDelays, reFailures>>
  /\ UNCHANGED <<pageVars, callVars, txVars, evVars, fbVars, bsVars>>

\* events.subscribe rejects: the catch block sets the timer with the current
\* retryDelay, then updates retryDelay.
SubscribeRejects ==
  /\ rePc = "subscribing"
  /\ reFailures < MaxFailures
  /\ reFailures' = reFailures + 1
  /\ reTimers' = Append(reTimers, [delay |-> reRetryDelay])
  /\ reDelays' = Append(reDelays, reRetryDelay)
  /\ reRetryDelay' = NextRetryDelay(reRetryDelay)
  /\ rePc' = "waiting"
  /\ UNCHANGED <<pageVars, callVars, txVars, evVars, fbVars, bsVars>>

\* The timer fires: () => this.connect()
ResilientRetryFires ==
  /\ reTimers # <<>>
  /\ reTimers' = Tail(reTimers)
  /\ rePc' = "subscribing"
  /\ UNCHANGED <<reRetryDelay, reDelays, reFailures>>
  /\ UNCHANGED <<pageVars, callVars, txVars, evVars, fbVars, bsVars>>

NextResilient ==
  \/ ResilientConnect
  \/ SubscribeResolves
  \/ SubscribeRejects
  \/ ResilientRetryFires

Init == PageInit /\ CallInit /\ TxIdle /\ EvIdle /\ FbInit /\ BsIdle /\ ReIdle

Next == Home \/ HomepageHeader \/ HomepageFeatures \/ RenderFeature \/ Rerender

Spec == Init /\ [][Next]_vars

InitTx == PageIdle /\ CallInit /\ TxInit /\ EvIdle /\ FbInit /\ BsIdle /\ ReIdle

SpecTx == InitTx /\ [][NextTx]_vars

InitEvents == PageIdle /\ CallInit /\ TxIdle /\ EvInit /\ FbInit /\ BsIdle /\ ReIdle

SpecEvents == InitEvents /\ [][NextEvents]_vars

\* The event loop runs the callback of every timer that is due.
SpecEventsFair == SpecEvents /\ WF_vars(ReconnectTimerFires)

InitFallback == PageIdle /\ CallInit /\ TxIdle /\ EvIdle /\ FbInit /\ BsIdle /\ ReIdle

\* Every promise an invocation awaits settles, and every timer it sets fires.
SpecFallback ==
  InitFallback /\ [][NextFallback]_vars /\ \A c \in FbCalls : WF_vars(FallbackSettles(c))

InitBatch == PageIdle /\ CallInit /\ TxIdle /\ EvIdle /\ FbInit /\ BsInit /\ ReIdle

SpecBatch == InitBatch /\ [][NextBatch]_vars

InitResilient == PageIdle /\ CallInit /\ TxIdle /\ EvIdle /\ FbInit /\ BsIdle /\ ReInit

SpecResilient == InitResilient /\ [][NextResilient]_vars

(***************************************************************************)
(* Feature as a function of its props: direct calls on arbitrary items     *)
(***************************************************************************)
\* The values the items are built from: those of the compiled-in list, the
\* empty string the type string also admits, and one vector component.
ItemTexts == {[title |-> FeatureList[i].title, description |-> FeatureList[i].description] :
                i \in 1..Len(FeatureList)}

ItemImageSrcs == {FeatureList[i].ImageSrc : i \in 1..Len(FeatureList)} \cup {Str("")}

ItemSvgs == {Comp("MountainSvg")}

\* Every FeatureItem the type admits over these values: title and description
\* are required, Svg and ImageSrc are each set or not.
FeatureItems ==
  {[title |-> x.title, description |-> x.description] : x \in ItemTexts}
  \cup {[title |-> x.title, description |-> x.description, ImageSrc |-> i] :
          x \in ItemTexts, i \in ItemImageSrcs}
  \cup {[title |-> x.title, description |-> x.description, Svg |-> v] :
          x \in ItemTexts, v \in ItemSvgs}
  \cup {[title |-> x.title, description |-> x.description, ImageSrc |-> i, Svg |-> v] :
          x \in ItemTexts, i \in ItemImageSrcs, v \in ItemSvgs}

CallFeature ==
  /\ ncalls < MaxCalls
  /\ \E p \in FeatureItems :
       /\ arg' = p
       /\ card' = Feature(p)
       /\ calls' = calls \cup {[props |-> p, card |-> Feature(p)]}
  /\ ncalls' = ncalls + 1
  /\ UNCHANGED <<pageVars, txVars, evVars, fbVars, bsVars, reVars>>

NextFeature == CallFeature

InitFeature == Init /\ siteConfig = [title |-> "foc.fun", tagline |-> "The Starknet App Engine"]

SpecFeature == InitFeature /\ [][NextFeature]_vars

(***************************************************************************)
(* What a card shows                                                       *)
(***************************************************************************)
IsCard(c) == "type" \in DOMAIN c /\ c.type = Host("div") /\ Len(c.children) = 2

\* The elements of the icon slot: null renders nothing.
IconElements(c) == SelectSeq(c.children[1].children, LAMBDA e : e # null)

ImgElements(c) == SelectSeq(IconElements(c), LAMBDA e : e.type = Host("img"))

VectorElements(c) == SelectSeq(IconElements(c), LAMBDA e : e.type.t = "component")

CardTitle(c) == c.children[2].children[1].children

CardDescription(c) == c.children[2].children[2].children

\* A field is set when the item has it; a raster path is a set, non-empty ImageSrc.
IsSet(props, f) == f \in DOMAIN props

HasRasterPath(props) == IsSet(props, "ImageSrc") /\ props.ImageSrc.v # ""

(***************************************************************************)
(* Claims about Feature, over direct calls (SpecFeature)                   *)
(***************************************************************************)
\* C1: for every item with both a raster path and a vector component present,
\* the icon slot holds one image element whose src is that raster path and no
\* vector component, and every render of that item makes the same choice.
C1_RasterBeforeVector ==
  \A r \in calls :
    (HasRasterPath(r.props) /\ IsSet(r.props, "Svg")) =>
      /\ IsCard(r.card)
      /\ Len(IconElements(r.card)) = 1
      /\ IconElements(r.card)[1].type = Host("img")
      /\ IconElements(r.card)[1].props.src = r.props.ImageSrc
      /\ VectorElements(r.card) = <<>>
      /\ \A q \in calls :
           q.props = r.props => IconElements(q.card) = IconElements(r.card)

C1_Witness ==
  /\ ncalls = 2
  /\ HasRasterPath(arg) /\ IsSet(arg, "Svg")
  /\ calls = {[props |-> arg, card |-> card]}
  /\ Len(ImgElements(card)) = 1

\* C2: a card has exactly one icon element when an icon field of its item is
\* set (for the entries of the list: to a path or a component) and none when
\* neither is set; no card has two icon elements.
C2_OneIconOrNone ==
  \A r \in calls :
    /\ IsCard(r.card)
    /\ Len(IconElements(r.card)) <= 1
    /\ (HasRasterPath(r.props) \/ IsSet(r.props, "Svg")) => Len(IconElements(r.card)) = 1
    /\ (\E i \in 1..Len(featureList) : r.props = featureList[i]) =>
         Len(IconElements(r.card)) =
           IF IsSet(r.props, "ImageSrc") \/ IsSet(r.props, "Svg") THEN 1 ELSE 0
    /\ (~IsSet(r.props, "ImageSrc") /\ ~IsSet(r.props, "Svg")) =>
         Len(IconElements(r.card)) = 0

C2_Witness ==
  /\ ncalls = 2
  /\ \E r \in calls : r.props = featureList[1] /\ Len(IconElements(r.card)) = 1
  /\ \E r \in calls : ~IsSet(r.props, "ImageSrc") /\ ~IsSet(r.props, "Svg")
                      /\ Len(IconElements(r.card)) = 0

\* C4: for an item with Svg set and ImageSrc absent, the icon slot holds that
\* vector component and no image element.
C4_VectorOnly ==
  \A r \in calls :
    (IsSet(r.props, "Svg") /\ ~IsSet(r.props, "ImageSrc")) =>
      /\ IsCard(r.card)
      /\ IconElements(r.card) = <<SvgIcon(r.props.Svg)>>
      /\ IconElements(r.card)[1].type = r.props.Svg
      /\ ImgElements(r.card) = <<>>

C4_Witness ==
  /\ IsSet(arg, "Svg") /\ ~IsSet(arg, "ImageSrc")
  /\ [props |-> arg, card |-> card] \in calls
  /\ Len(VectorElements(card)) = 1

\* C5: for an item with neither icon field set, Feature returns a card that
\* shows the item's title and description and whose icon slot is empty.
C5_NoIconIsSilent ==
  \A r \in calls :
    (~IsSet(r.props, "ImageSrc") /\ ~IsSet(r.props, "Svg")) =>
      /\ IsCard(r.card)
      /\ CardTitle(r.card) = <<Text(r.props.title)>>
      /\ CardDescription(r.card) = <<r.props.description>>
      /\ IconElements(r.card) = <<>>

C5_Witness ==
  /\ ~IsSet(arg, "ImageSrc") /\ ~IsSet(arg, "Svg")
  /\ [props |-> arg, card |-> card] \in calls
  /\ CardTitle(card) = <<Text(arg.title)>>

ShowsEntry(c, e) ==
  /\ IsCard(c)
  /\ CardTitle(c) = <<Text(e.title)>>
  /\ CardDescription(c) = <<e.description>>
  /\ HasRasterPath(e) => /\ Len(IconElements(c)) = 1
                         /\ IconElements(c)[1].type = Host("img")
                         /\ IconElements(c)[1].props.src = e.ImageSrc
  /\ (~HasRasterPath(e) /\ IsSet(e, "Svg")) => IconElements(c) = <<SvgIcon(e.Svg)>>

\* C3: HomepageFeatures renders one card per entry of FeatureList in list
\* order: the i-th card shows the i-th entry, and a finished pass has as many
\* cards as the list has entries.
C3_OneCardPerEntryInOrder ==
  /\ Len(section) <= Len(featureList)
  /\ \A i \in 1..Len(section) : ShowsEntry(section[i].card, featureList[i])
  /\ pc = "done" => Len(section) = Len(featureList)

C3_Witness ==
  /\ pc = "done"
  /\ Len(section) = 3
  /\ \A i \in 1..3 : CardTitle(section[i].card) = <<Text(featureList[i].title)>>
  /\ \A i, j \in 1..3 : i # j => section[i].card # section[j].card

\* C6: for the compiled-in list a finished pass has exactly 3 cards, titled
\* 'Easy to Deploy', 'Focus on Your App', 'Powered by Starknet' in this order,
\* with image icons /img/magician.png, /img/rainbow.png, /img/starknet-logo.png
\* and no vector icon.
C6_CompiledInCards ==
  pc = "done" =>
    /\ Len(section) = 3
    /\ CardTitle(section[1].card) = <<Text("Easy to Deploy")>>
    /\ CardTitle(section[2].card) = <<Text("Focus on Your App")>>
    /\ CardTitle(section[3].card) = <<Text("Powered by Starknet")>>
    /\ \A i \in 1..3 : /\ Len(ImgElements(section[i].card)) = 1
                       /\ VectorElements(section[i].card) = <<>>
    /\ ImgElements(section[1].card)[1].props.src = Str("/img/magician.png")
    /\ ImgElements(section[2].card)[1].props.src = Str("/img/rainbow.png")
    /\ ImgElements(section[3].card)[1].props.src = Str("/img/starknet-logo.png")

C6_Witness ==
  /\ pc = "done"
  /\ Len(section) = 3
  /\ ImgElements(section[3].card)[1].props.src = Str("/img/starknet-logo.png")

\* C8: every entry of the compiled-in list has exactly one of ImageSrc and Svg
\* set, and that one is renderable.
C8_ExactlyOneIconSource ==
  \A i \in 1..Len(featureList) :
    /\ IsSet(featureList[i], "ImageSrc") # IsSet(featureList[i], "Svg")
    /\ Truthy(Get(featureList[i], "ImageSrc")) \/ Truthy(Get(featureList[i], "Svg"))

C8_Witness ==
  /\ pc = "done"
  /\ Len(featureList) = 3
  /\ \A i \in 1..3 : /\ IsSet(featureList[i], "ImageSrc")
                     /\ ~IsSet(featureList[i], "Svg")
                     /\ Len(IconElements(section[i].card)) = 1

\* C9: after any sequence of renders of Home, HomepageHeader, HomepageFeatures
\* and Feature the list holds the 3 entries it was defined with, in the same
\* order and with the same field values.
C9_ListImmutable ==
  /\ Len(featureList) = 3
  /\ featureList = FeatureList

C9_Witness ==
  /\ renders >= 2
  /\ pc = "done"
  /\ Len(section) = 3
  /\ featureList = FeatureList

\* C10: the card of the i-th entry (counted from 0) carries key i, so the keys
\* of one pass are pairwise distinct, and an entry has the same key in the
\* next pass.
C10_KeysFromIndex ==
  /\ \A i \in 1..Len(section) : section[i].key = i - 1
  /\ \A i \in 1..Len(pending) :
       pending[i].key = Len(featureList) - Len(pending) + i - 1
  /\ \A i, j \in 1..Len(section) : i # j => section[i].key # section[j].key
  /\ (pc = "done" /\ renders > 0) =>
       /\ Len(prevSection) = Len(section)
       /\ \A i \in 1..Len(section) :
            /\ CardTitle(prevSection[i].card) = CardTitle(section[i].card)
            /\ prevSection[i].key = section[i].key

C10_Witness ==
  /\ pc = "done"
  /\ renders > 0
  /\ Len(section) = 3
  /\ section[3].key = 2
  /\ prevSection[3].key = 2

(***************************************************************************)
(* Layout of the row, the header and the page (Spec)                       *)
(***************************************************************************)
\* The column span the grid's stylesheet gives to a card's class, in units of
\* a 12-unit row; 0 for a class that sets none.
ColSpan(className) ==
  CASE className = "col col--1" -> 1
    [] className = "col col--2" -> 2
    [] className = "col col--3" -> 3
    [] className = "col col--4" -> 4
    [] className = "col col--5" -> 5
    [] className = "col col--6" -> 6
    [] className = "col col--7" -> 7
    [] className = "col col--8" -> 8
    [] className = "col col--9" -> 9
    [] className = "col col--10" -> 10
    [] className = "col col--11" -> 11
    [] className = "col col--12" -> 12
    [] OTHER -> 0

SectionCards == [i \in 1..Len(section) |-> section[i].card]

\* The elements of the given type in a sequence of trees, in document order.
RECURSIVE ElementsOfType(_, _)
ElementsOfType(els, type) ==
  IF els = <<>>
    THEN <<>>
    ELSE LET e == Head(els)
         IN (IF "type" \notin DOMAIN e
               THEN <<>>
               ELSE (IF e.type = type THEN <<e>> ELSE <<>>)
                    \o ElementsOfType(e.children, type))
            \o ElementsOfType(Tail(els), type)

Count(seq, x) == Len(SelectSeq(seq, LAMBDA y : y = x))

\* C11: the cards of a pass lie in one row, all with the same column span,
\* and the span times the number of list entries is the 12 units of the row
\* (span 4 for the 3 entries).
C11_EqualColumnsFillRow ==
  /\ \A i \in 1..Len(section) :
       /\ ColSpan(section[i].card.props.className) = ColSpan(section[1].card.props.className)
       /\ ColSpan(section[i].card.props.className) * Len(featureList) = 12
       /\ ColSpan(section[i].card.props.className) = 4
  /\ pc = "done" =>
       LET rows == ElementsOfType(<<SectionElement(SectionCards)>>, Host("div"))
       IN /\ Len(SelectSeq(rows, LAMBDA d : d.props.className = "row")) = 1
          /\ \E k \in 1..Len(rows) :
               rows[k].props.className = "row" /\ rows[k].children = SectionCards
          /\ Len(SectionCards) = Len(featureList)

C11_Witness ==
  /\ pc = "done"
  /\ Len(section) = 3
  /\ \A i \in 1..3 : section[i].card.props.className = "col col--4"

\* C12: a render of HomepageFeatures over the compiled-in list never reaches
\* an error state and never stops half-way; when it is complete Feature has
\* been called exactly once per entry and the cards form a section.
C12_NoErrorPath ==
  /\ pc \in {"Home", "HomepageHeader", "HomepageFeatures", "Feature", "done"}
  /\ pc # "done" => ENABLED Next
  /\ Count(trace, "Feature") = Len(section)
  /\ Count(trace, "HomepageFeatures") = 1 =>
       Count(trace, "Feature") + Len(pending) = Len(featureList)
  /\ \A i \in 1..Len(section) : IsCard(section[i].card)
  /\ pc = "done" =>
       /\ pending = <<>>
       /\ Count(trace, "Feature") = Len(featureList)
       /\ SectionElement(SectionCards).type = Host("section")

C12_Witness ==
  /\ pc = "done"
  /\ Count(trace, "HomepageFeatures") = 1
  /\ Count(trace, "Feature") = 3
  /\ pending = <<>>

\* C13: the header shows siteConfig.title and siteConfig.tagline and exactly
\* two links, the first to /docs/getting-started/intro and the second to
\* /docs/intro; with the same siteConfig it is the same in every pass.
C13_HeaderFromSiteConfig ==
  header # null =>
    /\ ElementsOfType(<<header>>, Heading)[1].children[1] = Text(siteConfig.title)
    /\ Len(ElementsOfType(<<header>>, Heading)) = 1
    /\ ElementsOfType(<<header>>, Host("p")) =
         <<El(Host("p"), [className |-> "hero__subtitle"], <<Text(siteConfig.tagline)>>)>>
    /\ Len(ElementsOfType(<<header>>, Link)) = 2
    /\ ElementsOfType(<<header>>, Link)[1].props.to = "/docs/getting-started/intro"
    /\ ElementsOfType(<<header>>, Link)[2].props.to = "/docs/intro"
    /\ prevHeader # null => header = prevHeader

C13_Witness ==
  /\ header # null
  /\ prevHeader # null
  /\ siteConfig.title = "foc.fun"
  /\ Len(ElementsOfType(<<header>>, Link)) = 2

\* C14: Home returns one Layout element titled 'Welcome to ' followed by
\* siteConfig.title, holding one HomepageHeader and after it one
\* HomepageFeatures; a complete pass has called each of them once, the header
\* first.
C14_PageAssembly ==
  /\ layout # null =>
       /\ layout.type = Layout
       /\ layout.props.title = "Welcome to " \o siteConfig.title
       /\ ComponentsOf(<<layout>>) = <<"HomepageHeader", "HomepageFeatures">>
  /\ Count(trace, "HomepageHeader") <= 1
  /\ Count(trace, "HomepageFeatures") <= 1
  /\ Count(trace, "HomepageFeatures") = 1 => Count(trace, "HomepageHeader") = 1
  /\ pc = "done" =>
       /\ SelectSeq(trace, LAMBDA x : x # "Feature") =
            <<"Home", "HomepageHeader", "HomepageFeatures">>
       /\ header # null

C14_Witness ==
  /\ pc = "done"
  /\ layout # null
  /\ layout.props.title = "Welcome to foc.fun"
  /\ Count(trace, "HomepageHeader") = 1
  /\ Count(trace, "HomepageFeatures") = 1

(***************************************************************************)
(* Further claims about Feature                                            *)
(***************************************************************************)
\* C15: an item whose ImageSrc is the empty string is treated as one without
\* a raster path: its card has the Svg component as icon when Svg is set and
\* no icon element otherwise, and never an image element.
C15_EmptyPathIsNoPath ==
  \A r \in calls :
    (IsSet(r.props, "ImageSrc") /\ r.props.ImageSrc = Str("")) =>
      /\ IsCard(r.card)
      /\ ImgElements(r.card) = <<>>
      /\ IsSet(r.props, "Svg") => IconElements(r.card) = <<SvgIcon(r.props.Svg)>>
      /\ ~IsSet(r.props, "Svg") => IconElements(r.card) = <<>>

C15_Witness ==
  /\ ncalls = 2
  /\ \E r \in calls : /\ IsSet(r.props, "ImageSrc") /\ r.props.ImageSrc = Str("")
                      /\ IsSet(r.props, "Svg")
                      /\ Len(VectorElements(r.card)) = 1
  /\ \E r \in calls : /\ IsSet(r.props, "ImageSrc") /\ r.props.ImageSrc = Str("")
                      /\ ~IsSet(r.props, "Svg")
                      /\ IconElements(r.card) = <<>>

\* C16: in a card with an image icon the image's src is the entry's ImageSrc
\* and its alt the entry's title, heading and description are those of the
\* same entry, and no field of another entry appears in the card.
C16_CardFieldsFromOneItem ==
  \A i \in 1..Len(section) :
    LET c == section[i].card
        e == featureList[i]
    IN ImgElements(c) # <<>> =>
         /\ ImgElements(c)[1].props.src = e.ImageSrc
         /\ ImgElements(c)[1].props.alt = e.title
         /\ CardTitle(c) = <<Text(e.title)>>
         /\ CardDescription(c) = <<e.description>>
         /\ \A j \in 1..Len(featureList) :
              j # i => /\ ImgElements(c)[1].props.src # featureList[j].ImageSrc
                       /\ ImgElements(c)[1].props.alt # featureList[j].title
                       /\ CardTitle(c) # <<Text(featureList[j].title)>>
                       /\ CardDescription(c) # <<featureList[j].description>>

C16_Witness ==
  /\ pc = "done"
  /\ Len(section) = 3
  /\ \A i \in 1..3 : /\ Len(ImgElements(section[i].card)) = 1
                     /\ ImgElements(section[i].card)[1].props.alt = featureList[i].title

(***************************************************************************)
(* Claims about useTransactions (SpecTx)                                   *)
(***************************************************************************)
\* C17: one call of sendTransaction puts at most one transaction on the
\* network, and the regular build/sign/submit path never runs in a call whose
\* invokeWithPaymaster has returned a transaction hash.
C17_AtMostOneSubmission ==
  \A c \in TxCalls :
    /\ Len(txSubmitted[c]) <= 1
    /\ txPc[c] \in {"buildTransaction", "signTransaction", "submitTransaction"} =>
         txSubmitted[c] = <<>>

\* C18: when every started call of sendTransaction has settled, pending is
\* empty, so the button is not disabled.
C18_NoStalePending ==
  (\A c \in TxCalls : TxSettled(c)) =>
    /\ txPending = <<>>
    /\ ~TransactionButtonDisabled

(***************************************************************************)
(* Claims about FocEventService and useFocEvents (SpecEvents)              *)
(***************************************************************************)
\* C19: after disconnect() was called the service constructs no WebSocket.
C19_NoSocketAfterDisconnect ==
  evDisconnected => Len(evSockets) = evSocketsAtDisconnect

\* C20: once the effect has run with an account, an open WebSocket of the
\* service has been sent the subscribe message for account.address.
C20_SubscribedWhenOpen ==
  \A i \in 1..Len(evSockets) :
    (evEffect # "idle" /\ evAccount # undefined /\ evSockets[i].readyState = "OPEN") =>
      \E k \in 1..Len(evSockets[i].sent) :
        evSockets[i].sent[k] = [type |-> "subscribe", address |-> evAccount.address]

\* The sockets of the service that have closed, and the connect() calls that
\* timers have made (the first connect() is the effect's).
ClosedSockets == {i \in 1..Len(evSockets) : evSockets[i].readyState = "CLOSED"}

TimerConnects == IF evSockets = <<>> THEN 0 ELSE Len(evSockets) - 1

\* C21: every close of a WebSocket of the service schedules exactly one
\* connect() with a delay of 5000 ms (the closes so far are the connect()
\* calls timers have made plus the timers still pending, one timer per closed
\* socket), and after the n-th close an n-th reconnect eventually follows.
C21_ReconnectAfterClose ==
  /\ [](/\ Cardinality(ClosedSockets) = TimerConnects + Len(evTimers)
        /\ \A k \in 1..Len(evTimers) :
             /\ evTimers[k].delay = 5000
             /\ evTimers[k].socket \in ClosedSockets
        /\ \A j, k \in 1..Len(evTimers) : j # k => evTimers[j].socket # evTimers[k].socket)
  /\ \A n \in 1..(MaxSockets - 1) :
       (Cardinality(ClosedSockets) >= n) ~> (TimerConnects >= n)

\* A socket closed after disconnect() and a connect() made by a timer followed.
C21_Witness ==
  /\ evDisconnected
  /\ ClosedSockets # {}
  /\ Len(evSockets) > evSocketsAtDisconnect
  /\ evTimers = <<>>
(***************************************************************************)
(* Claims about executeTransactionWithFallback (SpecFallback)              *)
(***************************************************************************)
FbEnded(c) == fbPc[c] \in {"returned", "thrown"}

\* C22: an invocation that ends by throwing has called
\* confirmRegularTransaction before: when its paymaster attempts have failed,
\* the user is offered a regular transaction.
C22_ThrowOnlyAfterOffer ==
  \A c \in FbCalls : fbPc[c] = "thrown" => fbConfirms[c] >= 1

\* C23: an invocation calls invokeWithPaymaster at most 3 times; a call that
\* succeeds is the last one it makes and its result is what the invocation
\* returns; an invocation that has started eventually returns or throws.
C23_BoundedAttemptsAndEnd ==
  /\ [](\A c \in FbCalls :
          /\ Len(fbInvokes[c]) <= 3
          /\ \A k \in 1..Len(fbInvokes[c]) :
               fbInvokes[c][k].outcome = "resolved" =>
                 /\ k = Len(fbInvokes[c])
                 /\ fbPc[c] = "returned"
                 /\ fbResult[c] = [t |-> "invokeWithPaymaster", v |-> k]
          /\ fbPc[c] = "returned" <=> fbResult[c].t \in {"invokeWithPaymaster", "executeRegularTransaction"}
          /\ fbPc[c] = "thrown" <=> fbResult[c].t = "error"
          /\ (fbPc[c] = "returned" /\ fbResult[c].t = "invokeWithPaymaster") =>
               /\ fbResult[c].v = Len(fbInvokes[c])
               /\ fbInvokes[c][fbResult[c].v].outcome = "resolved")
  /\ \A c \in FbCalls : (fbPc[c] # "idle") ~> FbEnded(c)

\* An invocation whose first two calls failed returned the result of its third.
C23_Witness ==
  \E c \in FbCalls :
    /\ fbPc[c] = "returned"
    /\ fbResult[c] = [t |-> "invokeWithPaymaster", v |-> 3]
    /\ fbInvokes[c][1].outcome = "PAYMASTER_UNAVAILABLE"
    /\ fbInvokes[c][2].outcome = "PAYMASTER_UNAVAILABLE"
(***************************************************************************)
(* Claims about batchSubmit (SpecBatch)                                    *)
(***************************************************************************)
\* The calls of submitTransaction made for an account, in call order.
SubmittedOf(account) == SelectSeq(bsSubmitted, LAMBDA x : x.accountAddress = account)

\* The positions in the argument of the transactions of an account, ascending.
RECURSIVE InputOf(_, _)
InputOf(account, n) ==
  IF n = 0 THEN <<>>
  ELSE IF bsInput[n] = account THEN Append(InputOf(account, n - 1), n)
  ELSE InputOf(account, n - 1)

TimesSubmitted(i) == Cardinality({k \in 1..Len(bsSubmitted) : bsSubmitted[k].tx = i})

\* No getNonce call and no submitTransaction call of the batch is outstanding.
BatchQuiet ==
  /\ bsPc = "called"
  /\ \A g \in 1..Len(bsNonce) : bsNonce[g].t # "pending"
  /\ \A k \in 1..Len(bsSubmitted) : bsSubmitted[k].state # "pending"

\* The submissions made for an account carry pairwise distinct, consecutive
\* nonces, starting at the value getNonce returned and following input order.
NoncesInInputOrder(g) ==
  LET account == bsGroups[g].account
      subs == SubmittedOf(account)
      txs == InputOf(account, Len(bsInput))
  IN /\ Len(subs) = Len(txs)
     /\ \A k \in 1..Len(subs) :
          /\ subs[k].tx = txs[k]
          /\ subs[k].nonce = bsNonce[g].v + (k - 1)
     /\ \A j, k \in 1..Len(subs) : j # k => subs[j].nonce # subs[k].nonce

\* C24 as stated: within one call the transactions of each account are
\* submitted with distinct, consecutive nonces from the getNonce value on, in
\* input order, and once the call's work is over every input transaction has
\* been submitted exactly once.
C24_EverySubmittedOnce ==
  /\ \A g \in 1..Len(bsGroups) : bsNonce[g].t = "resolved" => NoncesInInputOrder(g)
  /\ BatchQuiet => \A i \in 1..Len(bsInput) : TimesSubmitted(i) = 1

\* C24 amended: the transactions are grouped by account in input order; the
\* transactions of an account whose getNonce resolved are submitted exactly
\* once each, with distinct, consecutive nonces from that value on, in input
\* order; the transactions of any other account are not submitted.
C24_NoncesPerAccount ==
  /\ bsPc = "called" =>
       /\ \A a \in BatchAccounts :
            InputOf(a, Len(bsInput)) # <<>> =>
              \E g \in 1..Len(bsGroups) :
                /\ bsGroups[g].account = a
                /\ bsGroups[g].txs = InputOf(a, Len(bsInput))
       /\ \A g, h \in 1..Len(bsGroups) : g # h => bsGroups[g].account # bsGroups[h].account
  /\ \A g \in 1..Len(bsGroups) :
       IF bsNonce[g].t = "resolved"
         THEN NoncesInInputOrder(g)
         ELSE SubmittedOf(bsGroups[g].account) = <<>>
  /\ \A i \in 1..Len(bsInput) :
       TimesSubmitted(i) =
         IF \E g \in 1..Len(bsGroups) :
              bsGroups[g].account = bsInput[i] /\ bsNonce[g].t = "resolved"
           THEN 1 ELSE 0

\* Two accounts with interleaved transactions, both submitted from different
\* nonce values, with submissions of both still in flight.
C24_Witness ==
  /\ bsInput = <<"0xa11ce", "0xb0b", "0xa11ce">>
  /\ Len(bsSubmitted) = 3
  /\ \A g \in 1..Len(bsGroups) : bsNonce[g].t = "resolved"
  /\ bsNonce[1].v # bsNonce[2].v
  /\ \E j, k \in 1..Len(bsSubmitted) :
       /\ bsSubmitted[j].accountAddress # bsSubmitted[k].accountAddress
       /\ bsSubmitted[j].state = "pending"
       /\ bsSubmitted[k].state = "pending"
(***************************************************************************)
(* Claims about ResilientEventSubscriber (SpecResilient)                   *)
(***************************************************************************)
IsNum(x) == x.t = "number"

\* Each failed connect() has scheduled exactly one retry, and a retry is
\* pending exactly while the subscriber waits for it.
OneRetryPerFailure ==
  /\ Len(reDelays) = reFailures
  /\ Len(reTimers) = (IF rePc = "waiting" THEN 1 ELSE 0)
  /\ rePc = "waiting" => reTimers[1].delay = reDelays[Len(reDelays)]

====
